---------------------------- MODULE Spec2Model ----------------------------
(***************************************************************************)
(* Flight price lookup service (app.py): the start-up holiday fetch, the   *)
(* lookup pipeline recommend_flights, the post-filters of flight_details,  *)
(* the facets of get_filters and the time-slot bucketing get_time_slot.    *)
(*                                                                         *)
(* Representation.  A Python str is a sequence of symbols.  Digits,        *)
(* punctuation and blanks are one symbol each; an alphabetic word is one   *)
(* symbol ("Delhi", "Vistara").  Python's None is the value None below.    *)
(* Predictor outputs are exact decimals in thousandths; a price rounded to *)
(* two decimals is an integer number of hundredths.                        *)
(*                                                                         *)
(* Left out: the display columns of recommend_flights (logos, airport      *)
(* names, the randomly chosen aircraft and terminals, meals, baggage), the *)
(* travellers parameter of flight_details, and the page routes that only   *)
(* render a template.  None of them touches a price, the order or the      *)
(* selection of the records.                                               *)
(***************************************************************************)
EXTENDS Integers, Sequences, FiniteSets, TLC

VARIABLES
  phase,          \* "boot", "serving", or "crashed" (import raised)
  fetch_failed,   \* whether get_holidays() raised
  holidays,       \* the keys of the module-level holidays dict
  df,             \* the module-level DataFrame
  base_model,     \* base_model.pkl
  holiday_model,  \* holiday_model.pkl
  today,          \* date.today()
  req,            \* the request being answered: its route and request.args
  resp,           \* the response of the handler
  ts_arg,         \* the argument of a direct get_time_slot call
  ts_slot,        \* and its result
  threads         \* the requests in flight when handlers run concurrently

vars == <<phase, fetch_failed, holidays, df, base_model, holiday_model,
          today, req, resp, ts_arg, ts_slot, threads>>

(***************************************************************************)
(* Strings                                                                 *)
(***************************************************************************)
None == <<"<None>">>

Digits == {"0", "1", "2", "3", "4", "5", "6", "7", "8", "9"}

DigitVal(c) ==
  CASE c = "0" -> 0 [] c = "1" -> 1 [] c = "2" -> 2 [] c = "3" -> 3
    [] c = "4" -> 4 [] c = "5" -> 5 [] c = "6" -> 6 [] c = "7" -> 7
    [] c = "8" -> 8 [] c = "9" -> 9

DigitSym(n) ==
  CASE n = 0 -> "0" [] n = 1 -> "1" [] n = 2 -> "2" [] n = 3 -> "3"
    [] n = 4 -> "4" [] n = 5 -> "5" [] n = 6 -> "6" [] n = 7 -> "7"
    [] n = 8 -> "8" [] n = 9 -> "9"

\* str.lower(), symbol by symbol
LowerSym(c) ==
  CASE c = "Delhi" -> "delhi" [] c = "Mumbai" -> "mumbai"
    [] c = "IGI" -> "igi" [] c = "BOM" -> "bom"
    [] c = "Economy" -> "economy" [] c = "Business" -> "business"
    [] c = "Night" -> "night" [] c = "Morning" -> "morning"
    [] c = "Early" -> "early" [] c = "Evening" -> "evening"
    [] c = "Afternoon" -> "afternoon" [] c = "Late" -> "late"
    [] OTHER -> c

Lower(s) == [i \in 1..Len(s) |-> LowerSym(s[i])]

\* str.strip(): leading and trailing blanks removed
RECURSIVE LStrip(_)
LStrip(s) == IF s # <<>> /\ Head(s) = " " THEN LStrip(Tail(s)) ELSE s

RECURSIVE RStrip(_)
RStrip(s) ==
  IF s # <<>> /\ s[Len(s)] = " " THEN RStrip(SubSeq(s, 1, Len(s) - 1)) ELSE s

Strip(s) == RStrip(LStrip(s))

\* str.split(sep) for a one-symbol separator: the sequence of the pieces
RECURSIVE Split(_, _)
Split(s, sep) ==
  IF \E i \in 1..Len(s) : s[i] = sep
  THEN LET i == CHOOSE j \in 1..Len(s) :
                  s[j] = sep /\ \A k \in 1..(j - 1) : s[k] # sep
       IN <<SubSeq(s, 1, i - 1)>> \o Split(SubSeq(s, i + 1, Len(s)), sep)
  ELSE <<s>>

\* str.replace(" ", "_")
ReplaceBlank(s) == [i \in 1..Len(s) |-> IF s[i] = " " THEN "_" ELSE s[i]]

RangeOf(s) == {s[i] : i \in 1..Len(s)}

AllDigits(s) == s # <<>> /\ \A i \in 1..Len(s) : s[i] \in Digits

RECURSIVE DigitsVal(_)
DigitsVal(s) ==
  IF s = <<>> THEN 0
  ELSE 10 * DigitsVal(SubSeq(s, 1, Len(s) - 1)) + DigitVal(s[Len(s)])

\* int(str): blanks stripped, an optional sign, then digits only;
\* anything else raises ValueError
IntBody(s) ==
  LET t == Strip(s)
  IN IF t # <<>> /\ Head(t) \in {"+", "-"} THEN Tail(t) ELSE t

IntOk(s) == AllDigits(IntBody(s))

IntOf(s) ==
  LET t == Strip(s)
  IN IF t # <<>> /\ Head(t) = "-" THEN 0 - DigitsVal(IntBody(s))
     ELSE DigitsVal(IntBody(s))

\* str(int) for the non-negative integers of the model
RECURSIVE StrOfNat(_)
StrOfNat(n) ==
  IF n < 10 THEN <<DigitSym(n)>>
  ELSE StrOfNat(n \div 10) \o <<DigitSym(n % 10)>>

\* the order of str comparison (code points): digits, then ':', then words
SymRank(c) ==
  IF c \in Digits THEN DigitVal(c)
  ELSE CASE c = " " -> -3 [] c = "-" -> -2 [] c = "/" -> -1
         [] c = ":" -> 10 [] OTHER -> 11

RECURSIVE StrLess(_, _)
StrLess(a, b) ==
  IF b = <<>> THEN FALSE
  ELSE IF a = <<>> THEN TRUE
  ELSE IF SymRank(Head(a)) # SymRank(Head(b))
       THEN SymRank(Head(a)) < SymRank(Head(b))
  ELSE StrLess(Tail(a), Tail(b))

(***************************************************************************)
(* Dates: datetime.strptime(s, "%Y-%m-%d").date(), date subtraction,       *)
(* weekday() and strftime("%Y-%m-%d")                                      *)
(***************************************************************************)
IsLeap(y) == (y % 4 = 0 /\ y % 100 # 0) \/ y % 400 = 0

DaysInMonth(y, m) ==
  IF m = 2 THEN (IF IsLeap(y) THEN 29 ELSE 28)
  ELSE IF m \in {4, 6, 9, 11} THEN 30 ELSE 31

RECURSIVE DaysBeforeMonth(_, _)
DaysBeforeMonth(y, m) ==
  IF m = 1 THEN 0 ELSE DaysBeforeMonth(y, m - 1) + DaysInMonth(y, m - 1)

\* date.toordinal(): 1 for 0001-01-01
Ordinal(d) ==
  LET y1 == d.y - 1
  IN 365 * y1 + (y1 \div 4) - (y1 \div 100) + (y1 \div 400)
       + DaysBeforeMonth(d.y, d.m) + d.d

\* %m and %d accept one or two digits ("1[0-2]|0[1-9]|[1-9]" and
\* "3[01]|[12]\d|0[1-9]|[1-9]| [1-9]"); %Y is exactly four digits
FieldOk(f, hi, blank_pad) ==
  \/ /\ Len(f) \in {1, 2}
     /\ AllDigits(f)
     /\ DigitsVal(f) \in 1..hi
  \/ /\ blank_pad
     /\ Len(f) = 2
     /\ f[1] = " "
     /\ f[2] \in Digits \ {"0"}

FieldVal(f) == IF f[1] = " " THEN DigitVal(f[2]) ELSE DigitsVal(f)

\* the outcome of strptime: TypeError for None, ValueError for a string that
\* does not match the format or names no calendar day, else the date
StrpTime(s) ==
  IF s = None THEN [error |-> "TypeError"]
  ELSE LET p == Split(s, "-")
       IN IF /\ Len(p) = 3
             /\ Len(p[1]) = 4
             /\ AllDigits(p[1])
             /\ FieldOk(p[2], 12, FALSE)
             /\ FieldOk(p[3], 31, TRUE)
          THEN LET y == DigitsVal(p[1])
                   m == FieldVal(p[2])
                   d == FieldVal(p[3])
               IN IF y >= 1 /\ d <= DaysInMonth(y, m)
                  THEN [error |-> "", y |-> y, m |-> m, d |-> d]
                  ELSE [error |-> "ValueError"]
          ELSE [error |-> "ValueError"]

Pad(n, w) ==
  LET s == StrOfNat(n)
  IN [i \in 1..(w - Len(s)) |-> "0"] \o s

\* strftime("%Y-%m-%d")
StrfTime(d) == Pad(d.y, 4) \o <<"-">> \o Pad(d.m, 2) \o <<"-">> \o Pad(d.d, 2)

\* date.weekday(): Monday is 0
Weekday(d) == (Ordinal(d) + 6) % 7


(***************************************************************************)
(* get_time_slot                                                           *)
(***************************************************************************)
valid_labels ==
  { <<"early", "_", "morning">>, <<"morning">>, <<"afternoon">>,
    <<"evening">>, <<"night">>, <<"late", "_", "night">> }

HourSlot(hour) ==
  IF 0 <= hour /\ hour < 6 THEN <<"early", "_", "morning">>
  ELSE IF 6 <= hour /\ hour < 12 THEN <<"morning">>
  ELSE IF 12 <= hour /\ hour < 18 THEN <<"afternoon">>
  ELSE IF 18 <= hour /\ hour <= 23 THEN <<"evening">>
  ELSE <<"unknown">>

LabelSlot(t) ==
  LET normalized == ReplaceBlank(Lower(t))
  IN IF normalized \in valid_labels THEN normalized ELSE <<"unknown">>

get_time_slot(time_str) ==
  IF time_str = None \/ time_str = <<>> THEN <<"unknown">>
  ELSE LET t == Strip(time_str)
       IN IF ":" \in RangeOf(t) /\ IntOk(Split(t, ":")[1])
          THEN HourSlot(IntOf(Split(t, ":")[1]))
          ELSE LabelSlot(t)

(***************************************************************************)
(* The data set (Clean_flight_data.csv after the load-time normalisation)  *)
(* and the two trained regressors                                          *)
(***************************************************************************)
MaxRows == 3

Row(airline, dep, arr, stops, days_left) ==
  [ airline |-> <<airline>>, source_city |-> <<"Delhi">>,
    destination_city |-> <<"Mumbai">>, departure_time |-> dep,
    arrival_time |-> arr, stops |-> stops, class |-> <<"Economy">>,
    days_left |-> days_left ]

RowPool ==
  { Row("Vistara", <<"2", "1", ":", "0", "0">>, <<"2", "3", ":", "3", "0">>, 0, 2),
    Row("Indigo",  <<"0", "5", ":", "3", "0">>, <<"0", "8", ":", "0", "0">>, 1, 2),
    Row("Vistara", <<"0", "5", ":", "3", "0">>, <<"1", "2", ":", "1", "0">>, 1, 2),
    Row("Indigo",  <<"1", "8", ":", "1", "5">>, <<"2", "0", ":", "4", "5">>, 0, 3) }

RECURSIVE SeqsUpTo(_, _)
SeqsUpTo(S, n) ==
  IF n = 0 THEN {<<>>}
  ELSE LET shorter == SeqsUpTo(S, n - 1)
       IN shorter \cup
          { Append(s, x) : s \in { t \in shorter : Len(t) = n - 1 }, x \in S }

\* tables of distinct rows, at most MaxRows of them, in any order
Datasets ==
  { t \in SeqsUpTo(RowPool, MaxRows) :
      \A i, j \in 1..Len(t) : i # j => t[i] # t[j] }

\* a regressor: predict() of one feature vector, in thousandths
BaseModels ==
  { [ fare |-> [a \in {"Vistara", "Indigo"} |->
                  IF a = "Vistara" THEN 4000005 ELSE 4120000],
      per_stop |-> 750500 ],
    [ fare |-> [a \in {"Vistara", "Indigo"} |-> 4750504], per_stop |-> 0 ] }

HolidayModels ==
  { [ fare |-> [a \in {"Vistara", "Indigo"} |->
                  IF a = "Vistara" THEN 5000000 ELSE 5200020],
      per_stop |-> 0 ],
    [ fare |-> [a \in {"Vistara", "Indigo"} |-> 5000015], per_stop |-> 1000 ] }

predict(model, f) == model.fare[f.airline[1]] + model.per_stop * f.stops

Today == [y |-> 2026, m |-> 11, d |-> 6]

\* the key sets the calendar fetch can return
HolidayMaps == { {}, {<<"2", "0", "2", "6", "-", "1", "1", "-", "0", "8">>} }

(***************************************************************************)
(* enrich_features and recommend_flights                                   *)
(***************************************************************************)
top_n == 200

\* numpy's round(2) of the exact value num/den: nearest hundredth, ties to even
RoundHundredths(num, den) ==
  LET n == num * 100
      q == n \div den
      r == n % den
  IN IF 2 * r < den THEN q
     ELSE IF 2 * r > den THEN q + 1
     ELSE IF q % 2 = 0 THEN q ELSE q + 1

\* lines 59-71: the request-wide day_of_week and is_holiday columns
enrich_features(rows, user_date, holidays_map) ==
  IF user_date # None /\ user_date # <<>>
  THEN LET travel_date_obj == StrpTime(user_date)
           day_of_week == Weekday(travel_date_obj)
           is_holiday ==
             IF StrfTime(travel_date_obj) \in holidays_map THEN 1 ELSE 0
       IN [i \in 1..Len(rows) |->
             [day_of_week |-> day_of_week, is_holiday |-> is_holiday]
               @@ rows[i]]
  ELSE [i \in 1..Len(rows) |->
          [day_of_week |-> 0, is_holiday |-> 0] @@ rows[i]]

\* lines 170-188: base prediction, the holiday blend when the first row's
\* is_holiday is 1, then round(2); the price is in hundredths
\* variant: the holiday prediction replaces the base prediction outright
BlendedPrice_Substituted(f, base, holiday, first_is_holiday) ==
  IF first_is_holiday = 1
  THEN RoundHundredths(predict(holiday, f), 1000)
  ELSE RoundHundredths(predict(base, f), 1000)

BlendedPrice(f, base, holiday, first_is_holiday) ==
  IF first_is_holiday = 1
  THEN RoundHundredths(4 * predict(base, f)
                         + 3 * (predict(holiday, f) - predict(base, f)), 4000)
  ELSE RoundHundredths(predict(base, f), 1000)

\* sort_values(by=["stops", "departure_time", "predicted_price"])
LessBest(a, b) ==
  \/ a.stops < b.stops
  \/ /\ a.stops = b.stops
     /\ \/ StrLess(a.departure_time, b.departure_time)
        \/ /\ a.departure_time = b.departure_time
           /\ a.predicted_price < b.predicted_price

\* sort_values(by=["predicted_price", "days_left"])
LessCheap(a, b) ==
  \/ a.predicted_price < b.predicted_price
  \/ /\ a.predicted_price = b.predicted_price
     /\ a.days_left < b.days_left

SortLess(sort_by, a, b) ==
  IF sort_by = <<"best">> THEN LessBest(a, b) ELSE LessCheap(a, b)

\* variant: the rows are returned in table order
sort_values_Skipped(sort_by, s) == s

\* the sort on several keys is stable: a row comes after the rows with a
\* smaller key and after the earlier rows with an equal key
sort_values(sort_by, s) ==
  LET n == Len(s)
      rank == SubSeq([i \in 1..n |->
                        1 + Cardinality(
                              {j \in 1..n :
                                 \/ SortLess(sort_by, s[j], s[i])
                                 \/ /\ j < i
                                    /\ ~SortLess(sort_by, s[i], s[j])})],
                     1, n)
  IN [k \in 1..n |-> s[CHOOSE i \in 1..n : rank[i] = k]]

head(s, n) == SubSeq(s, 1, IF Len(s) < n THEN Len(s) ELSE n)

Result(raised, flights, base_calls, holiday_calls) ==
  [ raised |-> raised, flights |-> flights,
    base_calls |-> base_calls, holiday_calls |-> holiday_calls ]

\* lines 150-155: the match of one row
Matches(row, source, destination, flight_class, days_left) ==
  /\ Lower(row.source_city) = Lower(source)
  /\ Lower(row.destination_city) = Lower(destination)
  /\ Lower(row.class) = Lower(flight_class)
  /\ row.days_left = days_left

\* lines 162-238, for a non-empty match
PriceAndSort(filtered, travel_date, holidays_map, sort_by, base, holiday) ==
  LET enriched == enrich_features(filtered, travel_date, holidays_map)
      first_is_holiday == enriched[1].is_holiday
      priced ==
        [i \in 1..Len(enriched) |->
           [predicted_price |->
              BlendedPrice(enriched[i], base, holiday, first_is_holiday)]
             @@ enriched[i]]
  IN Result("", head(sort_values(sort_by, priced), top_n), 1,
            IF first_is_holiday = 1 THEN 1 ELSE 0)

\* variant: the ValueError of strptime is not caught
recommend_flights_Uncaught(table, now, base, holiday, source, destination, flight_class, travel_date, holidays_map, sort_by) ==
  LET travel_date_obj == StrpTime(travel_date)
  IN IF travel_date_obj.error # "" THEN Result(travel_date_obj.error, <<>>, 0, 0)
     ELSE IF source = None \/ destination = None \/ flight_class = None
          THEN Result("AttributeError", <<>>, 0, 0)
     ELSE LET days_left == Ordinal(travel_date_obj) - Ordinal(now)
              src == Split(Strip(Lower(source)), "(")[1]
              dst == Split(Strip(Lower(destination)), "(")[1]
              filtered ==
                SelectSeq(table,
                          LAMBDA row :
                            Matches(row, src, dst, flight_class, days_left))
          IN IF filtered = <<>> THEN Result("", <<>>, 0, 0)
             ELSE PriceAndSort(filtered, travel_date, holidays_map, sort_by,
                               base, holiday)

recommend_flights(table, now, base, holiday, source, destination, flight_class, travel_date, holidays_map, sort_by) ==
  LET travel_date_obj == StrpTime(travel_date)
  IN IF travel_date_obj.error = "TypeError" THEN Result("TypeError", <<>>, 0, 0)
     ELSE IF travel_date_obj.error = "ValueError" THEN Result("", <<>>, 0, 0)
     ELSE IF source = None \/ destination = None \/ flight_class = None
          THEN Result("AttributeError", <<>>, 0, 0)
     ELSE LET days_left == Ordinal(travel_date_obj) - Ordinal(now)
              src == Split(Strip(Lower(source)), "(")[1]
              dst == Split(Strip(Lower(destination)), "(")[1]
              filtered ==
                SelectSeq(table,
                          LAMBDA row :
                            Matches(row, src, dst, flight_class, days_left))
          IN IF filtered = <<>> THEN Result("", <<>>, 0, 0)
             ELSE PriceAndSort(filtered, travel_date, holidays_map, sort_by,
                               base, holiday)


(***************************************************************************)
(* request.args: each parameter holds the list of its values (a MultiDict) *)
(***************************************************************************)
ArgsGet(args, key, default) ==
  IF args[key] = <<>> THEN default ELSE args[key][1]

ArgsGetList(args, key) == args[key]

\* the reverse lookup of airport_lookup: the city of a code, else the input
CityOfCode(code) ==
  CASE code = <<"BOM">> -> <<"Mumbai">>
    [] code = <<"IGI">> -> <<"Delhi">>
    [] code = <<"MAA">> -> <<"Chennai">>
    [] code = <<"BLR">> -> <<"Bangalore">>
    [] code = <<"HYD">> -> <<"Hyderabad">>
    [] code = <<"CCU">> -> <<"Kolkata">>
    [] OTHER -> code

CityArg(args, key) ==
  CityOfCode(Strip(Split(ArgsGet(args, key, <<>>), "(")[1]))

Truthy(s) == s # None /\ s # <<>>

\* the call of recommend_flights that the three handlers make
Lookup(args, sort_by) ==
  recommend_flights(df, today, base_model, holiday_model,
                    CityArg(args, "source"), CityArg(args, "destination"),
                    ArgsGet(args, "class", None), ArgsGet(args, "date", None),
                    holidays, sort_by)

(***************************************************************************)
(* The post-filters of flight_details, lines 321-351                       *)
(***************************************************************************)
StripAll(parts) == {Strip(parts[i]) : i \in 1..Len(parts)}

AirlineFilter(flights, selected_airline) ==
  IF Truthy(selected_airline)
  THEN LET selected_airlines == StripAll(Split(selected_airline, ","))
       IN SelectSeq(flights, LAMBDA f : f.airline \in selected_airlines)
  ELSE flights

\* variant: the scan stops at the first record that passes
StopsFilter_FirstOnly(flights, selected_stops) ==
  IF selected_stops # <<>>
  THEN head(SelectSeq(flights,
                      LAMBDA f : StrOfNat(f.stops) \in RangeOf(selected_stops)), 1)
  ELSE flights

StopsFilter(flights, selected_stops) ==
  IF selected_stops # <<>>
  THEN SelectSeq(flights,
                 LAMBDA f : StrOfNat(f.stops) \in RangeOf(selected_stops))
  ELSE flights

\* predicted_price is in hundredths, max_price_val in units
MaxPriceFilter(flights, max_price) ==
  IF Truthy(max_price) /\ IntOk(max_price)
  THEN LET max_price_val == IntOf(max_price)
       IN SelectSeq(flights,
                    LAMBDA f : f.predicted_price <= 100 * max_price_val)
  ELSE flights

DepartureFilter(flights, selected_dep_times) ==
  IF Truthy(selected_dep_times)
  THEN LET allowed_slots == RangeOf(Split(selected_dep_times, ","))
       IN SelectSeq(flights,
                    LAMBDA f : get_time_slot(f.departure_time) \in allowed_slots)
  ELSE flights

ArrivalFilter(flights, selected_arr_times) ==
  IF Truthy(selected_arr_times)
  THEN LET allowed_slots == RangeOf(Split(selected_arr_times, ","))
       IN SelectSeq(flights,
                    LAMBDA f : get_time_slot(f.arrival_time) \in allowed_slots)
  ELSE flights

PostFilter(flights, args) ==
  ArrivalFilter(
    DepartureFilter(
      MaxPriceFilter(
        StopsFilter(
          AirlineFilter(flights, ArgsGet(args, "airline", None)),
          ArgsGetList(args, "stops")),
        ArgsGet(args, "max_price", None)),
      ArgsGet(args, "departure_time", None)),
    ArgsGet(args, "arrival_time", None))

(***************************************************************************)
(* The facets of get_filters, lines 394-441                                *)
(***************************************************************************)
\* int() of a price in hundredths: truncation toward zero
IntOfPrice(p) == IF p >= 0 THEN p \div 100 ELSE 0 - ((0 - p) \div 100)

MinOf(S) == CHOOSE x \in S : \A y \in S : x <= y
MaxOf(S) == CHOOSE x \in S : \A y \in S : y <= x

Prices(flights) == {flights[i].predicted_price : i \in 1..Len(flights)}

\* stop_prices: the stop counts in the order of their first flight
StopKeys(flights) ==
  LET stops == {flights[i].stops : i \in 1..Len(flights)}
      first == [stop \in stops |->
                  MinOf({i \in 1..Len(flights) : flights[i].stops = stop})]
  IN [k \in 1..Cardinality(stops) |->
        CHOOSE stop \in stops :
          Cardinality({other \in stops : first[other] < first[stop]}) = k - 1]

\* variant: the entry carries the greatest price of its stop-count
StopEntry_Max(flights, stop) ==
  [ label |-> StrOfNat(stop) \o <<" ", "Stop">>,
    value |-> stop,
    min_price |->
      IntOfPrice(MaxOf({flights[i].predicted_price :
                          i \in {j \in 1..Len(flights) : flights[j].stops = stop}})) ]

\* stops are integers, so the test stop == "0" of line 405 is never true
StopEntry(flights, stop) ==
  [ label |-> StrOfNat(stop) \o <<" ", "Stop">>,
    value |-> stop,
    min_price |->
      IntOfPrice(MinOf({flights[i].predicted_price :
                          i \in {j \in 1..Len(flights) : flights[j].stops = stop}})) ]

SlotSet(times) == {get_time_slot(t) : t \in times} \ {<<"unknown">>}

\* the sorted lists of airlines and of slots are held as sets
Facets(flights) ==
  [ airlines |-> {flights[i].airline : i \in 1..Len(flights)},
    min_price |-> IF flights # <<>> THEN IntOfPrice(MinOf(Prices(flights))) ELSE 0,
    max_price |-> IF flights # <<>> THEN IntOfPrice(MaxOf(Prices(flights))) ELSE 0,
    stops |-> LET keys == StopKeys(flights)
              IN [i \in 1..Len(keys) |-> StopEntry(flights, keys[i])],
    departure_times |->
      SlotSet({flights[i].departure_time : i \in 1..Len(flights)}),
    arrival_times |->
      SlotSet({flights[i].arrival_time : i \in 1..Len(flights)}) ]

NoFacets == Facets(<<>>)

(***************************************************************************)
(* Requests                                                                *)
(***************************************************************************)
NoArg == <<>>

Arg(s) == <<s>>

D(a, b, c, d, e, f, g, h, i, j) == <<a, b, c, d, e, f, g, h, i, j>>

SourceArgs == { Arg(<<"Delhi", " ", "(", "IGI", ")">>), Arg(<<>>) }

DestinationArgs == { Arg(<<"BOM">>), NoArg }

ClassArgs == { Arg(<<"economy">>), Arg(<<>>), NoArg }

DateArgs ==
  { Arg(D("2", "0", "2", "6", "-", "1", "1", "-", "0", "8")),
    Arg(<<"2", "0", "2", "6", "-", "1", "1", "-", "8">>),
    Arg(D("2", "0", "2", "6", "-", "1", "1", "-", "0", "9")),
    Arg(D("2", "0", "2", "6", "-", "1", "1", "-", "3", "1")),
    Arg(D("0", "8", "/", "1", "1", "/", "2", "0", "2", "6")),
    Arg(<<>>),
    NoArg }

SortArgs == { Arg(<<"best">>), NoArg }

QueryArgs ==
  [ source : SourceArgs, destination : DestinationArgs, class : ClassArgs,
    date : DateArgs, sort_by : SortArgs ]

\* the results page is asked for routes that exist, on these dates
DetailQueryArgs ==
  { q \in QueryArgs :
      /\ q.source # Arg(<<>>)
      /\ q.destination # NoArg
      /\ q.class = Arg(<<"economy">>)
      /\ q.date \in
           { Arg(D("2", "0", "2", "6", "-", "1", "1", "-", "0", "8")),
             Arg(D("2", "0", "2", "6", "-", "1", "1", "-", "0", "9")),
             Arg(D("2", "0", "2", "6", "-", "1", "1", "-", "3", "1")) } }

AirlineArgs ==
  { NoArg, Arg(<<"Vistara">>), Arg(<<"Indigo", ",", " ", "Vistara">>) }

StopsArgs == { NoArg, <<<<"1">>>>, <<<<"0", ",", "1">>>>, <<<<"0">>, <<"1">>>> }

MaxPriceArgs == { NoArg, Arg(<<"4", "7", "5", "0">>), Arg(<<"abc">>) }

TimeArgs ==
  { NoArg, Arg(<<"evening">>),
    Arg(<<"early", "_", "morning", ",", "morning", ",", "night">>) }

ArrivalArgs == { NoArg, Arg(<<"morning", ",", "afternoon">>) }

FilterNames == {"airline", "stops", "max_price", "departure_time", "arrival_time"}

\* the filter parameters of one request: at most two of the five are given
FilterArgs ==
  { f \in [ airline : AirlineArgs, stops : StopsArgs, max_price : MaxPriceArgs,
            departure_time : TimeArgs, arrival_time : ArrivalArgs ] :
      Cardinality({k \in FilterNames : f[k] # NoArg}) <= 2 }

NoFilters ==
  [ airline |-> NoArg, stops |-> NoArg, max_price |-> NoArg,
    departure_time |-> NoArg, arrival_time |-> NoArg ]

NoReq == [route |-> "", args |-> <<>>]

Response(status, flights, facets, base_calls, holiday_calls) ==
  [ status |-> status, flights |-> flights, facets |-> facets,
    base_calls |-> base_calls, holiday_calls |-> holiday_calls ]

NoResp == Response(0, <<>>, NoFacets, 0, 0)

\* an exception that leaves a handler is Flask's 500 response
FlightsResponse(r, flights) ==
  IF r.raised # "" THEN Response(500, <<>>, NoFacets, r.base_calls, r.holiday_calls)
  ELSE Response(200, flights, NoFacets, r.base_calls, r.holiday_calls)

(***************************************************************************)
(* A request in flight.  Flask's server answers each request on a thread   *)
(* of its own, so two handlers can be inside recommend_flights at once.    *)
(* A thread holds the locals of its call: days_left (line 142), the        *)
(* right-hand side of line 145, filtered_flights (line 155).               *)
(***************************************************************************)
MaxThreads == 2

ThreadIds == 1..MaxThreads

Thread(pc, route, args, days_left, column, filtered, response) ==
  [ pc |-> pc, route |-> route, args |-> args, days_left |-> days_left,
    column |-> column, filtered |-> filtered, resp |-> response ]

NoThread == Thread("idle", "", <<>>, 0, <<>>, <<>>, NoResp)

NoThreads == [t \in ThreadIds |-> NoThread]

(***************************************************************************)
(* Start-up (the module body) and the handlers                             *)
(***************************************************************************)
Init ==
  /\ phase = "boot"
  /\ fetch_failed = FALSE
  /\ holidays = {}
  /\ df \in Datasets
  /\ base_model \in BaseModels
  /\ holiday_model \in HolidayModels
  /\ today = Today
  /\ req = NoReq
  /\ resp = NoResp
  /\ ts_arg = None
  /\ ts_slot = None
  /\ threads = NoThreads

\* line 57, get_holidays() returns the events of the calendar
GetHolidaysOk ==
  /\ phase = "boot"
  /\ \E h \in HolidayMaps : holidays' = h
  /\ phase' = "serving"
  /\ UNCHANGED <<fetch_failed, df, base_model, holiday_model, today, req, resp,
                 ts_arg, ts_slot, threads>>

\* line 57, get_holidays() raises (no credentials, no network, an API error):
\* nothing catches it, so the import of the module fails
GetHolidaysFail ==
  /\ phase = "boot"
  /\ fetch_failed' = TRUE
  /\ phase' = "crashed"
  /\ UNCHANGED <<holidays, df, base_model, holiday_model, today, req, resp,
                 ts_arg, ts_slot, threads>>

Idle == phase = "serving" /\ resp = NoResp

\* line 145 assigns df["days_left"] its own values cast to int
Frame ==
  /\ df' = [i \in 1..Len(df) |-> [df[i] EXCEPT !.days_left = df[i].days_left]]
  /\ UNCHANGED <<phase, fetch_failed, holidays, base_model, holiday_model,
                 today, ts_arg, ts_slot, threads>>

flight_prices ==
  /\ Idle
  /\ \E args \in QueryArgs :
       /\ args.sort_by = NoArg
       /\ req' = [route |-> "/flight-prices", args |-> args @@ NoFilters]
       /\ LET r == Lookup(args, <<"cheap">>)
          IN resp' = FlightsResponse(r, r.flights)
  /\ Frame

flight_details ==
  /\ Idle
  /\ \E q \in DetailQueryArgs, f \in FilterArgs :
       LET args == q @@ f
           r == Lookup(args, ArgsGet(args, "sort_by", <<"cheap">>))
       IN /\ req' = [route |-> "/flight-details", args |-> args]
          /\ resp' = FlightsResponse(r, PostFilter(r.flights, args))
  /\ Frame

get_filters ==
  /\ Idle
  /\ \E q \in QueryArgs :
       LET args == q @@ NoFilters
           r == Lookup(args, ArgsGet(args, "sort_by", <<"cheap">>))
       IN /\ req' = [route |-> "/get-filters", args |-> args]
          /\ resp' =
               IF ~Truthy(ArgsGet(args, "date", None))
               THEN Response(400, <<>>, NoFacets, 0, 0)
               ELSE IF r.raised # ""
               THEN Response(500, <<>>, NoFacets, r.base_calls, r.holiday_calls)
               ELSE Response(200, <<>>, Facets(r.flights),
                             r.base_calls, r.holiday_calls)
  /\ Frame

\* the handler has returned; the next request finds no response pending
SendResponse ==
  /\ phase = "serving"
  /\ resp # NoResp
  /\ resp' = NoResp
  /\ req' = NoReq
  /\ UNCHANGED <<phase, fetch_failed, holidays, df, base_model, holiday_model,
                 today, ts_arg, ts_slot, threads>>

\* get_time_slot called on its own
TimeStrings ==
  { <<h1, h2, ":", m1, "0">> :
      h1 \in {"0", "1", "2"}, h2 \in Digits, m1 \in {"0", "3"} }
    \cup { None, <<>>, <<"Night">>, <<"Early", " ", "Morning">>,
           <<"late", "_", "night">>, <<"abc">>, <<"7", ":", "0", "5">>,
           <<" ", "0", "9", ":", "0", "0">>, <<"x", ":", "0", "0">>,
           <<"-", "1", ":", "0", "0">> }

InitTimeSlot ==
  /\ phase = "boot"
  /\ fetch_failed = FALSE
  /\ holidays = {}
  /\ df = <<>>
  /\ base_model \in BaseModels
  /\ holiday_model \in HolidayModels
  /\ today = Today
  /\ req = NoReq
  /\ resp = NoResp
  /\ ts_arg \in TimeStrings
  /\ ts_slot = None
  /\ threads = NoThreads

TimeSlotCall ==
  /\ ts_slot = None
  /\ ts_slot' = get_time_slot(ts_arg)
  /\ UNCHANGED <<phase, fetch_failed, holidays, df, base_model, holiday_model,
                 today, req, resp, ts_arg, threads>>

SpecTimeSlot == InitTimeSlot /\ [][TimeSlotCall]_vars

Next ==
  \/ GetHolidaysOk
  \/ GetHolidaysFail
  \/ flight_prices
  \/ flight_details
  \/ get_filters
  \/ SendResponse

Spec == Init /\ [][Next]_vars

(***************************************************************************)
(* The handlers step by step, with several requests in flight.  A step is  *)
(* one access to the module-level objects; what lies between two accesses  *)
(* works on the locals of the thread.                                      *)
(***************************************************************************)
ThreadRequests ==
  { [route |-> r, args |-> q @@ NoFilters] :
      r \in {"/flight-prices", "/get-filters"},
      q \in { a \in DetailQueryArgs :
                /\ a.sort_by = NoArg
                /\ a.date \in
                     { Arg(D("2", "0", "2", "6", "-", "1", "1", "-", "0", "8")),
                       Arg(D("2", "0", "2", "6", "-", "1", "1", "-", "3", "1")) } } }

ThreadSort(route, args) ==
  IF route = "/flight-prices" THEN <<"cheap">>
  ELSE ArgsGet(args, "sort_by", <<"cheap">>)

\* what the handler of the route returns for the value r of recommend_flights
HandlerResponse(route, r) ==
  IF r.raised # "" THEN Response(500, <<>>, NoFacets, r.base_calls, r.holiday_calls)
  ELSE IF route = "/get-filters"
  THEN Response(200, <<>>, Facets(r.flights), r.base_calls, r.holiday_calls)
  ELSE Response(200, r.flights, NoFacets, r.base_calls, r.holiday_calls)

\* the column is int64 since line 23: the cast is a new array of its values
astype_int(column) == [i \in 1..Len(column) |-> column[i]]

Column(table) == [i \in 1..Len(table) |-> table[i].days_left]

\* df["days_left"] = column
SetColumn(table, column) ==
  [i \in 1..Len(table) |-> [table[i] EXCEPT !.days_left = column[i]]]

\* the order of the rows plays no part in the sharing: one table per set of
\* rows, the rows in the order of their times
SharedTables ==
  { t \in Datasets :
      /\ Len(t) >= MaxRows - 1
      /\ \A i, j \in 1..Len(t) :
           i < j => \/ StrLess(t[i].departure_time, t[j].departure_time)
                    \/ /\ t[i].departure_time = t[j].departure_time
                       /\ StrLess(t[i].arrival_time, t[j].arrival_time) }

InitShared ==
  /\ phase = "serving"
  /\ fetch_failed = FALSE
  /\ holidays \in HolidayMaps
  /\ df \in SharedTables
  /\ base_model \in BaseModels
  /\ holiday_model \in HolidayModels
  /\ today = Today
  /\ req = NoReq
  /\ resp = NoResp
  /\ ts_arg = None
  /\ ts_slot = None
  /\ threads = NoThreads

\* the handler up to line 143: the arguments, the date check of get_filters,
\* strptime and days_left
Receive(t) ==
  /\ threads[t].pc = "idle"
  /\ \E r \in ThreadRequests :
       LET travel_date == ArgsGet(r.args, "date", None)
           travel_date_obj == StrpTime(travel_date)
       IN threads' =
            [threads EXCEPT ![t] =
               IF r.route = "/get-filters" /\ ~Truthy(travel_date)
               THEN Thread("done", r.route, r.args, 0, <<>>, <<>>,
                           Response(400, <<>>, NoFacets, 0, 0))
               ELSE IF travel_date_obj.error = "TypeError"
               THEN Thread("done", r.route, r.args, 0, <<>>, <<>>,
                           HandlerResponse(r.route, Result("TypeError", <<>>, 0, 0)))
               ELSE IF travel_date_obj.error = "ValueError"
               THEN Thread("done", r.route, r.args, 0, <<>>, <<>>,
                           HandlerResponse(r.route, Result("", <<>>, 0, 0)))
               ELSE Thread("parsed", r.route, r.args,
                           Ordinal(travel_date_obj) - Ordinal(today),
                           <<>>, <<>>, NoResp)]
  /\ UNCHANGED <<phase, fetch_failed, holidays, df, base_model, holiday_model,
                 today, req, resp, ts_arg, ts_slot>>

\* line 145, right-hand side: df["days_left"].astype(int)
CastRead(t) ==
  /\ threads[t].pc = "parsed"
  /\ threads' = [threads EXCEPT ![t].pc = "cast",
                                ![t].column = astype_int(Column(df))]
  /\ UNCHANGED <<phase, fetch_failed, holidays, df, base_model, holiday_model,
                 today, req, resp, ts_arg, ts_slot>>

\* line 145, the assignment to the column of the module-level df
CastWrite(t) ==
  /\ threads[t].pc = "cast"
  /\ df' = SetColumn(df, threads[t].column)
  /\ threads' = [threads EXCEPT ![t].pc = "assigned", ![t].column = <<>>]
  /\ UNCHANGED <<phase, fetch_failed, holidays, base_model, holiday_model,
                 today, req, resp, ts_arg, ts_slot>>

\* variant: the match keeps its rows in the module-level df, without .copy()
Match_InPlace(t) ==
  /\ threads[t].pc = "assigned"
  /\ LET source == CityArg(threads[t].args, "source")
         destination == CityArg(threads[t].args, "destination")
         flight_class == ArgsGet(threads[t].args, "class", None)
         src == Split(Strip(Lower(source)), "(")[1]
         dst == Split(Strip(Lower(destination)), "(")[1]
         filtered ==
           SelectSeq(df, LAMBDA row :
                           Matches(row, src, dst, flight_class,
                                   threads[t].days_left))
     IN /\ df' = filtered
        /\ threads' = [threads EXCEPT ![t].pc = "matched",
                                      ![t].filtered = filtered]
  /\ UNCHANGED <<phase, fetch_failed, holidays, base_model, holiday_model,
                 today, req, resp, ts_arg, ts_slot>>

\* lines 146-155: the rows of df that match, copied
Match(t) ==
  /\ threads[t].pc = "assigned"
  /\ LET source == CityArg(threads[t].args, "source")
         destination == CityArg(threads[t].args, "destination")
         flight_class == ArgsGet(threads[t].args, "class", None)
     IN threads' =
          [threads EXCEPT ![t] =
             IF source = None \/ destination = None \/ flight_class = None
             THEN [@ EXCEPT !.pc = "done",
                            !.resp = HandlerResponse(threads[t].route,
                                       Result("AttributeError", <<>>, 0, 0))]
             ELSE LET src == Split(Strip(Lower(source)), "(")[1]
                      dst == Split(Strip(Lower(destination)), "(")[1]
                  IN [@ EXCEPT !.pc = "matched",
                               !.filtered =
                                 SelectSeq(df, LAMBDA row :
                                                 Matches(row, src, dst,
                                                         flight_class,
                                                         threads[t].days_left))]]
  /\ UNCHANGED <<phase, fetch_failed, holidays, df, base_model, holiday_model,
                 today, req, resp, ts_arg, ts_slot>>

\* lines 157-238 on the thread's copy, then the rest of the handler
Price(t) ==
  /\ threads[t].pc = "matched"
  /\ LET th == threads[t]
         r == IF th.filtered = <<>> THEN Result("", <<>>, 0, 0)
              ELSE PriceAndSort(th.filtered, ArgsGet(th.args, "date", None),
                                holidays, ThreadSort(th.route, th.args),
                                base_model, holiday_model)
     IN threads' = [threads EXCEPT ![t].pc = "done", ![t].filtered = <<>>,
                                   ![t].resp = HandlerResponse(th.route, r)]
  /\ UNCHANGED <<phase, fetch_failed, holidays, df, base_model, holiday_model,
                 today, req, resp, ts_arg, ts_slot>>

\* the response is sent and the locals of the call are gone
Return(t) ==
  /\ threads[t].pc = "done"
  /\ threads' = [threads EXCEPT ![t] = NoThread]
  /\ UNCHANGED <<phase, fetch_failed, holidays, df, base_model, holiday_model,
                 today, req, resp, ts_arg, ts_slot>>

NextShared ==
  \E t \in ThreadIds :
    \/ Receive(t)
    \/ CastRead(t)
    \/ CastWrite(t)
    \/ Match(t)
    \/ Price(t)
    \/ Return(t)

SpecShared == InitShared /\ [][NextShared]_vars

(***************************************************************************)
(* get_filters on a route with about top_n matching rows                   *)
(***************************************************************************)
MaxExtra == 1

\* row i of a table whose rows all match Delhi -> Mumbai, Economy, two days
\* ahead: the first row is the one with two stops
LongRow(i) ==
  Row(IF i % 2 = 0 THEN "Indigo" ELSE "Vistara",
      IF i % 3 = 0 THEN <<"0", "5", ":", "3", "0">>
      ELSE IF i % 3 = 1 THEN <<"1", "8", ":", "1", "5">>
      ELSE <<"2", "1", ":", "0", "0">>,
      <<"2", "3", ":", "3", "0">>,
      IF i = 1 THEN 2 ELSE i % 2,
      2)

LongTables ==
  { [i \in 1..n |-> LongRow(i)] : n \in (top_n - 1)..(top_n + MaxExtra) }

InitFacets ==
  /\ phase = "serving"
  /\ fetch_failed = FALSE
  /\ holidays \in HolidayMaps
  /\ df \in LongTables
  /\ base_model \in BaseModels
  /\ holiday_model \in HolidayModels
  /\ today = Today
  /\ req = NoReq
  /\ resp = NoResp
  /\ ts_arg = None
  /\ ts_slot = None
  /\ threads = NoThreads

NextFacets ==
  \/ get_filters
  \/ SendResponse

SpecFacets == InitFacets /\ [][NextFacets]_vars


(***************************************************************************)
(* Properties                                                              *)
(***************************************************************************)
PricedRoutes == {"/flight-prices", "/flight-details"}

Answered == resp # NoResp

DateArg == ArgsGet(req.args, "date", None)

SortMode ==
  IF req.route = "/flight-prices" THEN <<"cheap">>
  ELSE ArgsGet(req.args, "sort_by", <<"cheap">>)

\* what recommend_flights returned to the handler of the request
LookedUp == Lookup(req.args, SortMode).flights

EmptyOrNull(key) == ArgsGet(req.args, key, None) \in {None, <<>>}

PartialQuery ==
  \E key \in {"source", "destination", "class", "date"} : EmptyOrNull(key)

\* C1: a query with any of source, destination, class or date empty or
\* null gets the empty sequence from lookup and the zero-valued facets from
\* get_filters, never a fault.
C1_PartialQueryDegrades ==
  (Answered /\ req.route \in {"/flight-prices", "/get-filters"} /\ PartialQuery)
    => /\ resp.status = 200
       /\ resp.flights = <<>>
       /\ resp.facets =
            [ airlines |-> {}, min_price |-> 0, max_price |-> 0, stops |-> <<>>,
              departure_times |-> {}, arrival_times |-> {} ]

\* the request-wide holiday flag: the travel date's ISO string is a key of
\* the holiday map
HolidayFlag == IF StrfTime(StrpTime(DateArg)) \in holidays THEN 1 ELSE 0

\* C2: every returned record is priced round(base, 2) on a non-holiday date
\* and round(base + (holiday - base) * 0.75, 2) on a holiday date; the flag
\* is one value for the request, and the holiday predictor is used exactly
\* when the flag is 1.
C2_PredictedPrice ==
  (Answered /\ req.route \in PricedRoutes /\ resp.base_calls = 1)
    => /\ resp.holiday_calls = HolidayFlag
       /\ \A i \in 1..Len(resp.flights) :
            LET f == resp.flights[i]
                b == predict(base_model, f)
                h == predict(holiday_model, f)
            IN /\ f.is_holiday = HolidayFlag
               /\ f.predicted_price =
                    IF HolidayFlag = 1
                    THEN RoundHundredths(4 * b + 3 * (h - b), 4000)
                    ELSE RoundHundredths(b, 1000)

C2_Witness ==
  /\ Answered
  /\ req.route = "/flight-prices"
  /\ Len(resp.flights) >= 2
  /\ HolidayFlag = 1
  /\ DateArg = <<"2", "0", "2", "6", "-", "1", "1", "-", "8">>
  /\ \E i \in 1..Len(resp.flights) :
       resp.flights[i].predicted_price
         # RoundHundredths(predict(base_model, resp.flights[i]), 1000)

IsHHMM(t) ==
  /\ t # None
  /\ Len(t) = 5
  /\ t[3] = ":"
  /\ \A i \in {1, 2, 4, 5} : t[i] \in Digits

ClaimedSlot(t) ==
  LET h == 10 * DigitVal(t[1]) + DigitVal(t[2])
  IN IF h < 6 THEN <<"early", "_", "morning">>
     ELSE IF h < 12 THEN <<"morning">>
     ELSE IF h < 18 THEN <<"afternoon">>
     ELSE IF h < 20 THEN <<"evening">>
     ELSE IF h <= 23 THEN <<"night">>
     ELSE <<"unknown">>

\* inputs that are missing, or neither a time of day nor a slot label
Unparseable == { None, <<>>, <<"abc">>, <<"x", ":", "0", "0">> }

\* C3: get_time_slot buckets an "HH:MM" string by its hour (early_morning
\* below 6, morning below 12, afternoon below 18, evening below 20, night up
\* to 23) and maps a missing or unparseable input to unknown.
C3_TimeSlotTable ==
  ts_slot # None
    => /\ IsHHMM(ts_arg) => ts_slot = ClaimedSlot(ts_arg)
       /\ ts_arg \in Unparseable => ts_slot = <<"unknown">>

BestKeyLeq(a, b) ==
  \/ a.stops < b.stops
  \/ /\ a.stops = b.stops
     /\ \/ StrLess(a.departure_time, b.departure_time)
        \/ /\ a.departure_time = b.departure_time
           /\ a.predicted_price <= b.predicted_price

CheapKeyLeq(a, b) ==
  \/ a.predicted_price < b.predicted_price
  \/ /\ a.predicted_price = b.predicted_price
     /\ a.days_left <= b.days_left

\* C4: the returned sequence is non-decreasing in (stops, departure_time,
\* predicted_price) for sort_by "best" and in (predicted_price, days_left)
\* otherwise, also after the post-filters of flight_details.
C4_SortedResult ==
  (Answered /\ req.route \in PricedRoutes)
    => \A i, j \in 1..Len(resp.flights) :
         i < j =>
           IF SortMode = <<"best">>
           THEN BestKeyLeq(resp.flights[i], resp.flights[j])
           ELSE CheapKeyLeq(resp.flights[i], resp.flights[j])

GivenFilters == {k \in FilterNames : req.args[k] # NoArg}

\* the index in df of the row a returned record was built from
RowIndex(f) ==
  CHOOSE i \in 1..Len(df) : \A k \in DOMAIN df[i] : df[i][k] = f[k]

C4_Witness ==
  /\ Answered
  /\ req.route = "/flight-details"
  /\ SortMode = <<"best">>
  /\ GivenFilters # {}
  /\ Len(resp.flights) = 2
  /\ Len(LookedUp) = 3
  /\ RowIndex(resp.flights[2]) < RowIndex(resp.flights[1])
  /\ resp.flights[1].stops = resp.flights[2].stops
  /\ resp.flights[1].departure_time = resp.flights[2].departure_time
  /\ resp.flights[1].predicted_price < resp.flights[2].predicted_price


ApplyFilter(k, flights) ==
  CASE k = "airline" -> AirlineFilter(flights, ArgsGet(req.args, "airline", None))
    [] k = "stops" -> StopsFilter(flights, ArgsGetList(req.args, "stops"))
    [] k = "max_price" ->
         MaxPriceFilter(flights, ArgsGet(req.args, "max_price", None))
    [] k = "departure_time" ->
         DepartureFilter(flights, ArgsGet(req.args, "departure_time", None))
    [] k = "arrival_time" ->
         ArrivalFilter(flights, ArgsGet(req.args, "arrival_time", None))

\* C5: on the looked-up list of a request, each post-filter applied twice
\* keeps what it keeps once, any two of the five give the same records in
\* either order, namely the records each of the two keeps on its own, and
\* the response is that conjunction over all five.
C5_FiltersCommute ==
  (Answered /\ req.route = "/flight-details" /\ resp.status = 200)
    => LET fl == LookedUp
       IN /\ \A k1 \in FilterNames :
               LET once == ApplyFilter(k1, fl)
               IN /\ ApplyFilter(k1, once) = once
                  /\ \A k2 \in FilterNames \ {k1} :
                       LET other == ApplyFilter(k2, fl)
                           both == ApplyFilter(k2, once)
                       IN /\ both = ApplyFilter(k1, other)
                          /\ both = SelectSeq(fl, LAMBDA f :
                                                f \in RangeOf(once)
                                                  /\ f \in RangeOf(other))
          /\ resp.flights
               = SelectSeq(fl, LAMBDA f :
                             \A k \in FilterNames :
                               f \in RangeOf(ApplyFilter(k, fl)))

C5_Witness ==
  /\ Answered
  /\ req.route = "/flight-details"
  /\ GivenFilters = {"airline", "stops"}
  /\ Len(LookedUp) = 3
  /\ Len(ApplyFilter("airline", LookedUp)) = 2
  /\ Len(ApplyFilter("stops", LookedUp)) = 2
  /\ Len(resp.flights) = 1

\* C6: over a non-empty result set, min_price <= p <= max_price for the
\* predicted_price p of every record (facet prices in units, p in
\* hundredths).
C6_PriceRange ==
  (Answered /\ req.route = "/get-filters" /\ resp.status = 200
     /\ resp.base_calls = 1)
    => \A p \in Prices(LookedUp) :
         /\ 100 * resp.facets.min_price <= p
         /\ p <= 100 * resp.facets.max_price

StopCounts(flights) == {flights[i].stops : i \in 1..Len(flights)}

TrueMinimum(flights, stop) ==
  CHOOSE p \in Prices(flights) :
    /\ \E i \in 1..Len(flights) :
         flights[i].stops = stop /\ flights[i].predicted_price = p
    /\ \A i \in 1..Len(flights) :
         flights[i].stops = stop => p <= flights[i].predicted_price

StopsFacetKeys ==
  /\ {resp.facets.stops[i].value : i \in 1..Len(resp.facets.stops)}
       = StopCounts(LookedUp)
  /\ Len(resp.facets.stops) = Cardinality(StopCounts(LookedUp))

\* C7 as stated: one stops entry per distinct stop-count of the result set,
\* each with min_price equal to the least predicted_price of that stop-count.
C7_StopsMinimumExact ==
  (Answered /\ req.route = "/get-filters" /\ resp.status = 200)
    => /\ StopsFacetKeys
       /\ \A i \in 1..Len(resp.facets.stops) :
            100 * resp.facets.stops[i].min_price
              = TrueMinimum(LookedUp, resp.facets.stops[i].value)

\* C7 as amended: one stops entry per distinct stop-count of the result set,
\* each with min_price the least predicted_price of that stop-count
\* truncated toward zero to a whole number.
C7_StopsMinimumTruncated ==
  (Answered /\ req.route = "/get-filters" /\ resp.status = 200)
    => /\ StopsFacetKeys
       /\ \A i \in 1..Len(resp.facets.stops) :
            LET m == TrueMinimum(LookedUp, resp.facets.stops[i].value)
                e == resp.facets.stops[i].min_price
            IN IF m >= 0 THEN 100 * e <= m /\ m < 100 * (e + 1)
               ELSE 100 * (e - 1) < m /\ m <= 100 * e

C7_Witness ==
  /\ Answered
  /\ req.route = "/get-filters"
  /\ Len(resp.facets.stops) = 2
  /\ Len(LookedUp) = 3
  /\ \E i \in 1..2 :
       LET e == resp.facets.stops[i]
       IN /\ TrueMinimum(LookedUp, e.value) % 100 # 0
          /\ \E j \in 1..3 :
               /\ LookedUp[j].stops = e.value
               /\ LookedUp[j].predicted_price >= 100 * (e.min_price + 1)

DatePresent == req.args.date # NoArg

\* YYYY-MM-DD: four, two and two digits naming a calendar day
IsoCalendarDate(s) ==
  /\ Len(s) = 10
  /\ s[5] = "-"
  /\ s[8] = "-"
  /\ \A i \in {1, 2, 3, 4, 6, 7, 9, 10} : s[i] \in Digits
  /\ LET y == DigitsVal(SubSeq(s, 1, 4))
         m == DigitsVal(SubSeq(s, 6, 7))
         d == DigitsVal(SubSeq(s, 9, 10))
     IN y >= 1 /\ m \in 1..12 /\ d \in 1..DaysInMonth(y, m)

NothingLookedUp ==
  /\ resp.status = 200
  /\ resp.flights = <<>>
  /\ resp.base_calls = 0
  /\ resp.holiday_calls = 0

\* C8 as stated: a travel_date that is present but is not a valid ISO
\* calendar date (YYYY-MM-DD) gives the empty result, no exception and no
\* predictor call (taken here for the requests that give a class, whose
\* lookup has nothing else to fail on).
C8_NonIsoDateRejected ==
  (Answered /\ req.route \in PricedRoutes /\ DatePresent
     /\ ~IsoCalendarDate(DateArg) /\ req.args.class # NoArg)
    => NothingLookedUp

\* year-month-day with a four-digit year and a month and a day of one or two
\* digits (the day may be blank-padded), naming a calendar day
LooseCalendarDate(s) ==
  LET p == Split(s, "-")
  IN /\ Len(p) = 3
     /\ Len(p[1]) = 4 /\ AllDigits(p[1]) /\ DigitsVal(p[1]) >= 1
     /\ Len(p[2]) \in {1, 2} /\ AllDigits(p[2]) /\ DigitsVal(p[2]) \in 1..12
     /\ Len(p[3]) \in {1, 2}
     /\ LET day == IF Len(p[3]) = 2 /\ p[3][1] = " " THEN Tail(p[3]) ELSE p[3]
        IN /\ AllDigits(day)
           /\ DigitsVal(day)
                \in 1..DaysInMonth(DigitsVal(p[1]), DigitsVal(p[2]))

\* C8 as amended: a travel_date that is present but is not a calendar day
\* written year-month-day (four-digit year, month and day of one or two
\* digits) gives the empty result, no exception and no predictor call.
C8_UnparsedDateRejected ==
  (Answered /\ req.route \in PricedRoutes /\ DatePresent
     /\ ~LooseCalendarDate(DateArg))
    => NothingLookedUp

C8_Witness ==
  /\ Answered
  /\ req.route = "/flight-prices"
  /\ DateArg = D("2", "0", "2", "6", "-", "1", "1", "-", "3", "1")
  /\ req.args.class = NoArg
  /\ Len(df) = 3
  /\ NothingLookedUp

\* C9: a failed holiday fetch at start-up is recovered locally: the holiday
\* map is empty and the process is serving.
C9_FetchFailureRecovered ==
  fetch_failed => (phase = "serving" /\ holidays = {})

\* the comma-separated allow-list of the stops values of the request
StopsAllowList ==
  UNION { RangeOf(Split(req.args.stops[i], ",")) : i \in 1..Len(req.args.stops) }

\* C10: with the stops filter alone, the response holds exactly the
\* looked-up records whose stop-count, as a string, is in the
\* comma-separated allow-list of the stops value.
C10_StopsAllowList ==
  (Answered /\ req.route = "/flight-details" /\ resp.status = 200
     /\ GivenFilters = {"stops"})
    => resp.flights
         = SelectSeq(LookedUp, LAMBDA f : StrOfNat(f.stops) \in StopsAllowList)

\* the response of a request that is answered with no other request in flight
AloneResponse(route, args) ==
  IF route = "/get-filters" /\ ~Truthy(ArgsGet(args, "date", None))
  THEN Response(400, <<>>, NoFacets, 0, 0)
  ELSE HandlerResponse(route, Lookup(args, ThreadSort(route, args)))

MatchedPrices ==
  LET travel_date == DateArg
      travel_date_obj == StrpTime(travel_date)
      source == CityArg(req.args, "source")
      destination == CityArg(req.args, "destination")
      flight_class == ArgsGet(req.args, "class", None)
  IN IF travel_date_obj.error # "" \/ flight_class = None THEN {}
     ELSE LET src == Split(Strip(Lower(source)), "(")[1]
              dst == Split(Strip(Lower(destination)), "(")[1]
              matched ==
                SelectSeq(df, LAMBDA row :
                                Matches(row, src, dst, flight_class,
                                        Ordinal(travel_date_obj) - Ordinal(today)))
              enriched == enrich_features(matched, travel_date, holidays)
          IN { BlendedPrice(enriched[i], base_model, holiday_model,
                            enriched[1].is_holiday) : i \in 1..Len(enriched) }

\* C12: min_price and max_price of get_filters are the least and the
\* greatest predicted_price (as whole numbers) over all the rows of the
\* dataset that match source, destination, class and days_left, for every
\* sort_by and also when more than top_n rows match.
C12_FacetsOverAllMatches ==
  (Answered /\ req.route = "/get-filters" /\ resp.status = 200
     /\ MatchedPrices # {})
    => /\ resp.facets.min_price = IntOfPrice(MinOf(MatchedPrices))
       /\ resp.facets.max_price = IntOfPrice(MaxOf(MatchedPrices))

=============================================================================
